---- MODULE Spec2Model ----
(***************************************************************************)
(* obsidian-s3-backup: the vault scanner, the archive builder, the S3      *)
(* client and the backup orchestrator, as a state machine.                 *)
(*                                                                         *)
(* Every public operation is one atomic action (the program is             *)
(* single-threaded and synchronous).  The operation's code is an operator  *)
(* that yields the SET of outcomes the code can produce from the state it  *)
(* is called in; the nondeterminism is the environment's: the answers of   *)
(* the remote service, other processes touching the bucket, and other      *)
(* processes touching the files between two steps of one operation.        *)
(* Strings the code inspects (paths, names) are sequences of characters.   *)
(***************************************************************************)
EXTENDS Integers, Sequences, FiniteSets, TLC

VARIABLES
    vault,          \* relative paths of the regular files under the vault root
    unlistable,     \* directories of the vault this process may not list
    tmp_archives,   \* temporary archive files on disk: path -> entries
    region,         \* S3BackupClient.region
    s3_client,      \* S3BackupClient.s3_client: None or a boto3 client handle
    init_status,    \* outcome of the most recent initialize_client call
    bucket,         \* the remote bucket: absent, mine (same owner) or foreign
    encrypted,      \* the bucket carries the default-encryption policy
    op,             \* the operation that returned last
    args,           \* what it was called with / the state it was called in
    result,         \* what it returned
    steps,          \* the methods it invoked, in order
    calls,          \* the remote calls it issued, in order, with their answers
    found_before,   \* the operation before it was ensure_bucket_exists and
                    \* its probe found the bucket
    ensured         \* ensure_bucket_exists has returned True on this instance

vars == <<vault, unlistable, tmp_archives, region, s3_client, init_status,
          bucket, encrypted, op, args, result, steps, calls, found_before,
          ensured>>

None == "None"

----------------------------------------------------------------------------
(* Strings as character sequences: str.startswith, str.endswith, `in`.     *)

startswith(s, x) == Len(s) >= Len(x) /\ SubSeq(s, 1, Len(x)) = x

endswith(s, x) == Len(s) >= Len(x) /\ SubSeq(s, Len(s) - Len(x) + 1, Len(s)) = x

contains(s, x) == \E i \in 1..(Len(s) - Len(x) + 1) : SubSeq(s, i, i + Len(x) - 1) = x

last_sep(p) ==
    LET at == {i \in 1..Len(p) : p[i] = "/"}
    IN  IF at = {} THEN 0 ELSE CHOOSE i \in at : \A j \in at : j <= i

\* os.path.basename
basename(p) == SubSeq(p, last_sep(p) + 1, Len(p))

\* os.path.join(root, name)
path_join(a, b) == a \o <<"/">> \o b

\* os.path.dirname
dirname(p) == SubSeq(p, 1, last_sep(p) - 1)

----------------------------------------------------------------------------
(* The eligibility filter.                                                 *)

DOT_OBSIDIAN == <<".", "o", "b", "s", "i", "d", "i", "a", "n">>

excluded_files ==
    { <<".", "D", "S", "_", "S", "t", "o", "r", "e">>,
      <<"T", "h", "u", "m", "b", "s", ".", "d", "b">>,
      <<".", "g", "i", "t", "i", "g", "n", "o", "r", "e">> }

temp_extensions ==
    { <<".", "t", "m", "p">>, <<".", "t", "e", "m", "p">>,
      <<".", "b", "a", "k">>, <<".", "s", "w", "p">> }

MD_EXT == <<".", "m", "d">>

\* A filter without its last rule, the one on hidden files.
is_backup_target_without_hidden_rule(file_path) ==
    LET file_name == basename(file_path)
    IN  IF contains(file_path, DOT_OBSIDIAN) THEN FALSE
        ELSE IF file_name \in excluded_files THEN FALSE
        ELSE IF \E ext \in temp_extensions : endswith(file_name, ext) THEN FALSE
        ELSE TRUE

\* is_backup_target(file_path): the four exclusion rules in the code's order.
\* The first rule is a substring test on the whole path string.
is_backup_target(file_path) ==
    LET file_name == basename(file_path)
    IN  IF contains(file_path, DOT_OBSIDIAN) THEN FALSE
        ELSE IF file_name \in excluded_files THEN FALSE
        ELSE IF \E ext \in temp_extensions : endswith(file_name, ext) THEN FALSE
        ELSE IF startswith(file_name, <<".">>) THEN FALSE
        ELSE TRUE

----------------------------------------------------------------------------
(* The vault on disk.                                                      *)

vault_path == <<"/", "v">>

\* n.md, .obsidian/c.js and s/i.png
F_note == <<"n", ".", "m", "d">>
F_cfg  == <<".", "o", "b", "s", "i", "d", "i", "a", "n", "/", "c", ".", "j", "s">>
F_img  == <<"s", "/", "i", ".", "p", "n", "g">>

\* The files a vault may hold, in the order os.walk meets them: the root
\* directory's files first, then each subdirectory's (top-down).
WalkOrder == <<F_note, F_cfg, F_img>>

PathUniverse == {WalkOrder[i] : i \in 1..Len(WalkOrder)}

\* The subdirectories whose listing may be denied to the process.
SubDirs == {<<"s">>}

\* os.walk(vault_path), flattened to the files it yields, as full paths.
\* It is called without onerror: a directory whose listing fails is skipped
\* silently and the walk goes on with the others.
os_walk(v) ==
    LET present == SelectSeq(WalkOrder,
                             LAMBDA p : p \in v /\ dirname(p) \notin unlistable)
    IN  [i \in 1..Len(present) |-> path_join(vault_path, present[i])]

\* What another process may do to the vault between two steps: nothing, or
\* one file removed, or one file added.
VaultNext(v) ==
    {v} \cup {v \ {f} : f \in v} \cup {v \cup {f} : f \in PathUniverse \ v}

\* The loop of validate_vault with its two flags and its break on the first
\* eligible markdown file.
RECURSIVE walk_validate(_, _, _, _)
walk_validate(files, i, has_any_files, has_md_files) ==
    IF i > Len(files) \/ has_md_files
    THEN [has_any_files |-> has_any_files, has_md_files |-> has_md_files]
    ELSE LET target == is_backup_target(files[i])
         IN  walk_validate(files, i + 1,
                           has_any_files \/ target,
                           target /\ endswith(basename(files[i]), MD_EXT))

\* A validation without the check for an empty vault.
validate_vault_no_empty_check(v) ==
    LET w == walk_validate(os_walk(v), 1, FALSE, FALSE)
    IN  IF w.has_any_files /\ ~w.has_md_files
        THEN [ret |-> FALSE, reason |-> "no_markdown"]
        ELSE [ret |-> TRUE, reason |-> "ok"]

\* A validation that is content with any eligible file.
validate_vault_any_file(v) ==
    LET w == walk_validate(os_walk(v), 1, FALSE, FALSE)
    IN  IF ~w.has_any_files THEN [ret |-> FALSE, reason |-> "empty"]
        ELSE [ret |-> TRUE, reason |-> "ok"]

\* ObsidianBackup.validate_vault: the result and the reason it logs.
validate_vault(v) ==
    LET w == walk_validate(os_walk(v), 1, FALSE, FALSE)
    IN  IF ~w.has_any_files THEN [ret |-> FALSE, reason |-> "empty"]
        ELSE IF ~w.has_md_files THEN [ret |-> FALSE, reason |-> "no_markdown"]
        ELSE [ret |-> TRUE, reason |-> "ok"]

\* A scan that returns every file the walk yields.
scan_vault_files_unfiltered(v) == os_walk(v)

\* ObsidianBackup.scan_vault_files: the eligible full paths in walk order.
scan_vault_files(v) == SelectSeq(os_walk(v), is_backup_target)

----------------------------------------------------------------------------
(* The remote service, as the client sees it.                              *)

\* The bucket the client is constructed for.
bucket_name == <<"b", "-", "1">>

US_EAST_1 == <<"u", "s", "-", "e", "a", "s", "t", "-", "1">>

\* The default of AWS_REGION in load_configuration.
AP_NORTHEAST_1 ==
    <<"a", "p", "-", "n", "o", "r", "t", "h", "e", "a", "s", "t", "-", "1">>

Regions == {US_EAST_1, AP_NORTHEAST_1}

\* botocore ClientError codes; anything else a call raises is "BotoCoreError"
\* or a plain "Exception".
ClientErrorCodes ==
    {"404", "NoSuchBucket", "403", "AccessDenied", "Forbidden", "InternalError",
     "BucketAlreadyOwnedByYou", "BucketAlreadyExists",
     "InvalidAccessKeyId", "SignatureDoesNotMatch"}

is_client_error(answer) == answer \in ClientErrorCodes

call(api, kwargs, answer) == [api |-> api, kwargs |-> kwargs, answer |-> answer]

\* What another process may do to the bucket between two remote calls:
\* nothing, create it (same owner, with or without the policy, or another
\* owner), or delete it.
RemoteNext(b, enc) ==
    {<<b, enc>>}
    \cup (IF b = "absent"
          THEN {<<"mine", FALSE>>, <<"mine", TRUE>>, <<"foreign", FALSE>>}
          ELSE {<<"absent", FALSE>>})

head_bucket_answers(b) ==
    (CASE b = "absent"  -> {"404", "NoSuchBucket"}
       [] b = "mine"    -> {"ok", "AccessDenied"}
       [] b = "foreign" -> {"403", "Forbidden"})
    \cup {"InternalError", "BotoCoreError", "Exception"}

create_bucket_answers(b) ==
    (CASE b = "absent"  -> {"ok"}
       [] b = "mine"    -> {"BucketAlreadyOwnedByYou"}
       [] b = "foreign" -> {"BucketAlreadyExists"})
    \cup {"AccessDenied", "Exception"}

put_bucket_encryption_answers == {"ok", "AccessDenied", "Exception"}

list_buckets_answers ==
    {"ok", "no_buckets_key", "AccessDenied", "InvalidAccessKeyId",
     "SignatureDoesNotMatch", "InternalError", "BotoCoreError", "Exception"}

s3_upload_answers(b) ==
    (CASE b = "absent"  -> {"NoSuchBucket"}
       [] b = "mine"    -> {"ok"}
       [] b = "foreign" -> {"AccessDenied"})
    \cup {"Exception"}

boto3_client_answers ==
    {"ok", "NoCredentialsError", "ClientError", "BotoCoreError", "Exception"}

----------------------------------------------------------------------------
(* S3BackupClient.                                                        *)

\* self.backup_prefix, set in __init__.
backup_prefix ==
    <<"o", "b", "s", "i", "d", "i", "a", "n", "-", "b", "a", "c", "k", "u", "p">>

\* What boto3.client returns: a handle built from the explicit key pair, or
\* one that resolves credentials by itself.
boto3_client(reg, credentials) ==
    IF credentials # None THEN "client(keys)" ELSE "client()"

\* Handlers of which one leaves the old handle in place.
initialize_client_except_keeps_handle(exc, s3) ==
    CASE exc = "NoCredentialsError" -> [s3_client |-> None, ret |-> FALSE]
      [] exc = "ClientError"        -> [s3_client |-> None, ret |-> FALSE]
      [] exc = "BotoCoreError"      -> [s3_client |-> s3, ret |-> FALSE]
      [] OTHER                      -> [s3_client |-> None, ret |-> FALSE]

\* The except clauses of initialize_client: each resets the handle the
\* instance held before the call.
initialize_client_except(exc, s3) ==
    CASE exc = "NoCredentialsError" -> [s3_client |-> None, ret |-> FALSE]
      [] exc = "ClientError"        -> [s3_client |-> None, ret |-> FALSE]
      [] exc = "BotoCoreError"      -> [s3_client |-> None, ret |-> FALSE]
      [] OTHER                      -> [s3_client |-> None, ret |-> FALSE]

\* A source of credentials holds a value, or "" (nothing), for each of
\* AWS_ACCESS_KEY_ID and AWS_SECRET_ACCESS_KEY; the value names its source.
source(name, has_access_key, has_secret_key) ==
    [access_key |-> IF has_access_key THEN name ELSE "",
     secret_key |-> IF has_secret_key THEN name ELSE ""]

\* The .env file, the environment of the process, and what
\* boto3.Session().get_credentials() finds in the profile.
DotenvFiles == {source("file", a, k) : a, k \in BOOLEAN}

ProcessEnvirons == {source("env", a, k) : a, k \in BOOLEAN}

SessionCredentials == {source("profile", a, k) : a, k \in BOOLEAN}

\* load_dotenv() with its default override=False: a variable the process
\* environment already holds keeps its value, the file supplies the others.
load_dotenv(dotenv, environ) ==
    [access_key |-> IF environ.access_key # "" THEN environ.access_key
                    ELSE dotenv.access_key,
     secret_key |-> IF environ.secret_key # "" THEN environ.secret_key
                    ELSE dotenv.secret_key]

\* get_aws_credentials(): <<pair>> or <<>> for None.
get_aws_credentials(dotenv, environ, session) ==
    LET loaded == load_dotenv(dotenv, environ)
    IN  IF loaded.access_key # "" /\ loaded.secret_key # ""
        THEN <<[aws_access_key_id |-> loaded.access_key,
                aws_secret_access_key |-> loaded.secret_key]>>
        ELSE IF session.access_key # "" /\ session.secret_key # ""
        THEN <<[aws_access_key_id |-> session.access_key,
                aws_secret_access_key |-> session.secret_key]>>
        ELSE <<>>

\* What get_aws_credentials may return to initialize_client: None, or a
\* pair of keys.
CredentialsFound ==
    {IF get_aws_credentials(d, e, p) = <<>> THEN None ELSE "keys" :
        d \in DotenvFiles, e \in ProcessEnvirons, p \in SessionCredentials}

\* initialize_client on an instance whose handle is s3: outcomes
\* [s3_client, ret], over what get_aws_credentials returns and how
\* boto3.client answers.  A raise happens before the assignment to
\* self.s3_client; the handler then resets it.
initialize_client(reg, s3) ==
    {IF answer = "ok"
     THEN [s3_client |-> boto3_client(reg, credentials), ret |-> TRUE]
     ELSE initialize_client_except(answer, s3) :
        credentials \in CredentialsFound, answer \in boto3_client_answers}

\* The history of initialize_client calls on the instance.
init_after(status, ret) ==
    IF ret THEN "ok"
    ELSE IF status \in {"ok", "failed_after_ok"} THEN "failed_after_ok"
    ELSE "failed"

\* A verification that takes any answer of the service for a success.
verify_credentials_lenient(s3) ==
    IF s3 = None
    THEN {[ret |-> FALSE, calls |-> <<>>]}
    ELSE {[ret |-> TRUE, calls |-> <<call("list_buckets", <<>>, answer)>>] :
            answer \in list_buckets_answers}

\* verify_credentials: outcomes [ret, calls].
verify_credentials(s3) ==
    IF s3 = None
    THEN {[ret |-> FALSE, calls |-> <<>>]}
    ELSE {[ret |-> (answer = "ok"), calls |-> <<call("list_buckets", <<>>, answer)>>] :
            answer \in list_buckets_answers}

\* Handlers that take the two already-exists codes for one another.
create_bucket_except_swapped(answer) ==
    IF is_client_error(answer)
    THEN IF answer = "BucketAlreadyOwnedByYou" THEN FALSE
         ELSE IF answer = "BucketAlreadyExists" THEN TRUE
         ELSE FALSE
    ELSE FALSE

\* Handlers that log a failure of either call and report success.
create_bucket_except_lenient(answer) ==
    IF is_client_error(answer)
    THEN IF answer = "BucketAlreadyOwnedByYou" THEN TRUE
         ELSE IF answer = "BucketAlreadyExists" THEN FALSE
         ELSE TRUE
    ELSE FALSE

\* The except clauses of _create_bucket_with_encryption, shared by both calls.
create_bucket_except(answer) ==
    IF is_client_error(answer)
    THEN IF answer = "BucketAlreadyOwnedByYou" THEN TRUE
         ELSE IF answer = "BucketAlreadyExists" THEN FALSE
         ELSE FALSE
    ELSE FALSE

create_bucket_kwargs(reg) ==
    IF reg # US_EAST_1
    THEN [Bucket |-> bucket_name,
          CreateBucketConfiguration |-> [LocationConstraint |-> reg]]
    ELSE [Bucket |-> bucket_name]

encryption_config ==
    [Rules |-> <<[ApplyServerSideEncryptionByDefault |-> [SSEAlgorithm |-> "AES256"],
                  BucketKeyEnabled |-> TRUE]>>]

\* _create_bucket_with_encryption called with the bucket in state b:
\* outcomes [ret, calls, bucket, encrypted].
_create_bucket_with_encryption(reg, b, enc) ==
    UNION {
        LET c1 == call("create_bucket", create_bucket_kwargs(reg), created)
        IN  IF created = "ok"
            THEN {LET c2 == call("put_bucket_encryption",
                                 [Bucket |-> bucket_name,
                                  ServerSideEncryptionConfiguration |-> encryption_config],
                                 put)
                  IN  IF put = "ok"
                      THEN [ret |-> TRUE, calls |-> <<c1, c2>>,
                            bucket |-> "mine", encrypted |-> TRUE]
                      ELSE [ret |-> create_bucket_except(put), calls |-> <<c1, c2>>,
                            bucket |-> "mine", encrypted |-> FALSE] :
                  put \in put_bucket_encryption_answers}
            ELSE {[ret |-> create_bucket_except(created), calls |-> <<c1>>,
                   bucket |-> b, encrypted |-> enc]} :
        created \in create_bucket_answers(b)}

\* A probe whose success does not end the method: it goes on to create.
probe_outcome_no_return(answer) ==
    IF answer = "ok" THEN "create"
    ELSE IF is_client_error(answer)
    THEN IF answer = "NoSuchBucket" \/ answer = "404" THEN "create"
         ELSE IF answer = "AccessDenied" \/ answer = "Forbidden" THEN "denied"
         ELSE "error"
    ELSE "error"

\* A probe that takes every client error for a missing bucket.
probe_outcome_any_error_creates(answer) ==
    IF answer = "ok" THEN "exists"
    ELSE IF is_client_error(answer) THEN "create"
    ELSE "error"

\* What ensure_bucket_exists makes of the probe's answer: the bucket exists,
\* it is to be created, access is denied, or the check failed.
probe_outcome(answer) ==
    IF answer = "ok" THEN "exists"
    ELSE IF is_client_error(answer)
    THEN IF answer = "NoSuchBucket" \/ answer = "404" THEN "create"
         ELSE IF answer = "AccessDenied" \/ answer = "Forbidden" THEN "denied"
         ELSE "error"
    ELSE "error"

\* ensure_bucket_exists: outcomes [ret, calls, bucket, encrypted].  Between
\* the probe and the create call another process may change the bucket.
ensure_bucket_exists(s3, reg, b, enc) ==
    IF s3 = None
    THEN {[ret |-> FALSE, calls |-> <<>>, bucket |-> b, encrypted |-> enc]}
    ELSE UNION {
        LET c0 == call("head_bucket", [Bucket |-> bucket_name], probe)
        IN  IF probe_outcome(probe) = "exists"
            THEN {[ret |-> TRUE, calls |-> <<c0>>, bucket |-> b, encrypted |-> enc]}
            ELSE IF probe_outcome(probe) = "create"
            THEN {[o EXCEPT !.calls = <<c0>> \o @] :
                    o \in UNION {_create_bucket_with_encryption(reg, r[1], r[2]) :
                                   r \in RemoteNext(b, enc)}}
            ELSE {[ret |-> FALSE, calls |-> <<c0>>, bucket |-> b, encrypted |-> enc]} :
        probe \in head_bucket_answers(b)}

\* ExtraArgs that never carry the caller's mapping.
extra_args_without_metadata(metadata) ==
    [StorageClass |-> "DEEP_ARCHIVE", ServerSideEncryption |-> "AES256"]

\* The ExtraArgs of the upload: Metadata only when the mapping is truthy.
extra_args(metadata) ==
    IF metadata # <<>>
    THEN [StorageClass |-> "DEEP_ARCHIVE", ServerSideEncryption |-> "AES256",
          Metadata |-> metadata[1]]
    ELSE [StorageClass |-> "DEEP_ARCHIVE", ServerSideEncryption |-> "AES256"]

\* An upload that does not look for the local file first.
local_file_missing_unchecked(exists) == FALSE

\* The guard of upload_file on the local file.
local_file_missing(exists) == ~exists

\* An upload that does not look at the handle first.
upload_file_without_client_guard(s3, b, local_path, exists, s3_key, metadata) ==
    IF local_file_missing(exists) THEN {[ret |-> FALSE, calls |-> <<>>]}
    ELSE {[ret |-> (answer = "ok"),
           calls |-> <<call("upload_file",
                            [Filename |-> local_path, Bucket |-> bucket_name,
                             Key |-> s3_key, ExtraArgs |-> extra_args(metadata)],
                            answer)>>] :
            answer \in s3_upload_answers(b)}

\* upload_file(local_path, s3_key, metadata), exists = os.path.exists(local_path):
\* outcomes [ret, calls].
upload_file(s3, b, local_path, exists, s3_key, metadata) ==
    IF s3 = None THEN {[ret |-> FALSE, calls |-> <<>>]}
    ELSE IF local_file_missing(exists) THEN {[ret |-> FALSE, calls |-> <<>>]}
    ELSE {[ret |-> (answer = "ok"),
           calls |-> <<call("upload_file",
                            [Filename |-> local_path, Bucket |-> bucket_name,
                             Key |-> s3_key, ExtraArgs |-> extra_args(metadata)],
                            answer)>>] :
            answer \in s3_upload_answers(b)}

\* A timestamp argument of None.
NoTimestamp == <<"(None)">>

\* A key generator without the check of its argument.
generate_backup_key_unchecked(timestamp) ==
    [raised |-> None,
     key |-> backup_prefix \o <<"-">> \o timestamp \o <<".", "z", "i", "p">>]

\* generate_backup_key(timestamp): raises ValueError on a falsy timestamp
\* ('' or None).
generate_backup_key(timestamp) ==
    IF timestamp = <<>> \/ timestamp = NoTimestamp
    THEN [raised |-> "ValueError", key |-> <<>>]
    ELSE [raised |-> None,
          key |-> backup_prefix \o <<"-">> \o timestamp \o <<".", "z", "i", "p">>]

----------------------------------------------------------------------------
(* ObsidianBackup: archive, metadata, orchestration.                       *)

\* A namespace in which tempfile is bound as well (and zipfile is not).
module_names_with_tempfile ==
    {"os", "logging", "List", "Dict", "Optional", "datetime", "tempfile"}

\* The names bound in backup.py's module namespace by its import statements.
\* create_backup_archive uses tempfile and zipfile, which are not among them.
module_names == {"os", "logging", "List", "Dict", "Optional", "datetime"}

\* os.path.exists for a full path under the vault.
vault_exists(v, file_path) == \E f \in v : path_join(vault_path, f) = file_path

\* os.path.relpath(file_path, vault_path) for a path under the vault.
relpath(file_path) == SubSeq(file_path, Len(vault_path) + 2, Len(file_path))

\* The name tempfile hands out: never one that is in use.
new_temp_name(tmp) == <<"tmp", Cardinality(DOMAIN tmp) + 1>>

put_file(tmp, path, entries) ==
    [q \in DOMAIN tmp \cup {path} |-> IF q = path THEN entries ELSE tmp[q]]

unlink(tmp, path) == [q \in DOMAIN tmp \ {path} |-> tmp[q]]

\* create_backup_archive(files) called with the vault in state v and the
\* temporary files tmp on disk: outcomes [archive_path, vault, tmp_archives].
\* The reference to tempfile on the first line of the try block raises
\* NameError, which the method's own except clause turns into None; nothing
\* has been created and no file has been looked at yet.  Past that line the
\* method would test each listed file for existence, in a vault another
\* process may have changed since the scan.
create_backup_archive(files, v, tmp) ==
    IF files = <<>>
    THEN {[archive_path |-> None, vault |-> v, tmp_archives |-> tmp]}
    ELSE IF "tempfile" \notin module_names
    THEN {[archive_path |-> None, vault |-> v, tmp_archives |-> tmp]}
    ELSE LET archive_path == new_temp_name(tmp)
             created == put_file(tmp, archive_path, <<>>)
         IN  IF "zipfile" \notin module_names
             THEN {[archive_path |-> None, vault |-> v, tmp_archives |-> created]}
             ELSE {LET stored == SelectSeq(files, LAMBDA f : vault_exists(v2, f))
                       entries == [i \in 1..Len(stored) |-> relpath(stored[i])]
                   IN  IF Len(stored) = 0
                       THEN [archive_path |-> None, vault |-> v2,
                             tmp_archives |-> unlink(created, archive_path)]
                       ELSE [archive_path |-> archive_path, vault |-> v2,
                             tmp_archives |-> put_file(created, archive_path, entries)] :
                   v2 \in VaultNext(v)}

\* st_size of a file: any fixed positive size will do.
file_size(file_path) == Len(file_path)

RECURSIVE sum_sizes(_, _, _)
sum_sizes(files, v, i) ==
    IF i > Len(files) THEN 0
    ELSE (IF vault_exists(v, files[i]) THEN file_size(files[i]) ELSE 0)
         + sum_sizes(files, v, i + 1)

\* calculate_total_size(files): files that have disappeared count 0.
calculate_total_size(files, v) == sum_sizes(files, v, 1)

\* generate_backup_metadata(): scans the vault again.
generate_backup_metadata(v, now) ==
    LET files == scan_vault_files(v)
    IN  [backup_date |-> now,
         vault_path  |-> basename(vault_path),
         file_count  |-> Len(files),
         total_size  |-> calculate_total_size(files, v),
         backup_type |-> "full"]

\* A method a run invoked, and whether it succeeded.
step(name, ok) == [step |-> name, ok |-> ok]

\* One way a run of execute_backup can end.
outcome(ret, stp, cls, v, tmp, b, enc) ==
    [ret |-> ret, steps |-> stp, calls |-> cls, vault |-> v,
     tmp_archives |-> tmp, bucket |-> b, encrypted |-> enc]

\* The finally clause of execute_backup.
cleanup(stp, tmp, archive_path) ==
    IF archive_path \in DOMAIN tmp
    THEN [steps |-> Append(stp, step("os.unlink", TRUE)),
          tmp_archives |-> unlink(tmp, archive_path)]
    ELSE [steps |-> stp, tmp_archives |-> tmp]

\* What datetime.now() may format to.
Timestamps == {<<"t", "1">>, <<"t", "2">>}

\* Steps 4 to 7 of execute_backup, inside try/finally, for an archive that
\* was created: outcomes as in `outcome`.
upload_archive(stp, archive_path, v, tmp, s3, reg, b, enc) ==
    UNION {UNION {
        LET s4 == Append(stp, step("ensure_bucket_exists", e.ret))
        IN  IF ~e.ret
            THEN {LET c == cleanup(s4, tmp, archive_path)
                  IN  outcome(FALSE, c.steps, e.calls, v, c.tmp_archives,
                              e.bucket, e.encrypted)}
            ELSE LET k  == generate_backup_key(now)
                     s5 == Append(s4, step("generate_backup_key", k.raised = None))
                 IN  IF k.raised # None
                     THEN {LET c == cleanup(s5, tmp, archive_path)
                           IN  outcome(FALSE, c.steps, e.calls, v, c.tmp_archives,
                                       e.bucket, e.encrypted)}
                     ELSE UNION {
                         LET metadata == generate_backup_metadata(v3, now)
                             s6 == Append(s5, step("generate_backup_metadata", TRUE))
                         IN  {LET c == cleanup(Append(s6, step("upload_file", u.ret)),
                                               tmp, archive_path)
                              IN  outcome(u.ret, c.steps, e.calls \o u.calls, v3,
                                          c.tmp_archives, e.bucket, e.encrypted) :
                              u \in upload_file(s3, e.bucket, archive_path,
                                                archive_path \in DOMAIN tmp,
                                                k.key, <<metadata>>)} :
                         v3 \in VaultNext(v)} :
        e \in ensure_bucket_exists(s3, reg, b, enc)} :
        now \in Timestamps}

\* A run that goes on after a failed validation.
validation_failed_ignored(valid) == FALSE

\* The guard of execute_backup on the validation's verdict.
validation_failed(valid) == ~valid.ret

\* execute_backup(): validate, scan, archive, then the upload steps.  Between
\* the validation and the scan another process may add or remove one file of
\* the vault.
execute_backup(v0, tmp, s3, reg, b, enc) ==
    LET valid == validate_vault(v0)
        s1 == <<step("validate_vault", valid.ret)>>
    IN  IF validation_failed(valid)
        THEN {outcome(FALSE, s1, <<>>, v0, tmp, b, enc)}
        ELSE UNION {
            LET files == scan_vault_files(v1)
                s2 == Append(s1, step("scan_vault_files", files # <<>>))
            IN  IF files = <<>>
                THEN {outcome(FALSE, s2, <<>>, v1, tmp, b, enc)}
                ELSE UNION {
                    LET s3x == Append(s2, step("create_backup_archive",
                                               a.archive_path # None))
                    IN  IF a.archive_path = None
                        THEN {outcome(FALSE, s3x, <<>>, a.vault, a.tmp_archives,
                                      b, enc)}
                        ELSE upload_archive(s3x, a.archive_path, a.vault,
                                            a.tmp_archives, s3, reg, b, enc) :
                    a \in create_backup_archive(files, v1, tmp)} :
            v1 \in VaultNext(v0)}

----------------------------------------------------------------------------
(* main.py: configuration and the entry point.                             *)

RECURSIVE lstrip(_)
lstrip(s) == IF s # <<>> /\ Head(s) = " " THEN lstrip(Tail(s)) ELSE s

RECURSIVE rstrip(_)
rstrip(s) ==
    IF s # <<>> /\ s[Len(s)] = " " THEN rstrip(SubSeq(s, 1, Len(s) - 1)) ELSE s

\* str.strip
strip(s) == rstrip(lstrip(s))

\* str.replace(ch, '')
remove_char(s, ch) == SelectSeq(s, LAMBDA c : c # ch)

AlnumChars ==
    {"a", "b", "c", "d", "e", "f", "g", "h", "i", "j", "k", "l", "m", "n", "o",
     "p", "q", "r", "s", "t", "u", "v", "w", "x", "y", "z",
     "0", "1", "2", "3", "4", "5", "6", "7", "8", "9"}

\* str.isalnum: false for the empty string.
isalnum(s) == s # <<>> /\ \A i \in 1..Len(s) : s[i] \in AlnumChars

\* A regular file outside the vault, and a path that does not exist.
FILE_PATH == <<"/", "f">>
MISSING_PATH == <<"/", "x">>

os_path_exists(p) == p \in {vault_path, FILE_PATH}

os_path_isdir(p) == p = vault_path

\* The value of an environment variable that is not set.
Unset == <<"(unset)">>

\* os.getenv(name, default)
getenv(environ, name, default) ==
    IF environ[name] = Unset THEN default ELSE environ[name]

\* load_configuration(): [raised, config].
load_configuration(environ) ==
    LET vp == environ.OBSIDIAN_VAULT_PATH
        bn == environ.AWS_S3_BUCKET_NAME
    IN  IF vp = Unset \/ vp = <<>> THEN [raised |-> "ValueError", config |-> None]
        ELSE IF bn = Unset \/ bn = <<>> THEN [raised |-> "ValueError", config |-> None]
        ELSE [raised |-> None,
              config |-> [vault_path    |-> strip(vp),
                          bucket_name   |-> strip(bn),
                          region        |-> strip(getenv(environ, "AWS_REGION",
                                                         AP_NORTHEAST_1)),
                          backup_prefix |-> strip(getenv(environ, "BACKUP_PREFIX",
                                                         backup_prefix))]]

\* A validation that accepts every configuration.
validate_configuration_lenient(config) == TRUE

\* validate_configuration(config)
validate_configuration(config) ==
    IF config.vault_path = <<>> THEN FALSE
    ELSE IF ~os_path_exists(config.vault_path) THEN FALSE
    ELSE IF ~os_path_isdir(config.vault_path) THEN FALSE
    ELSE IF config.bucket_name = <<>> THEN FALSE
    ELSE IF ~isalnum(remove_char(remove_char(config.bucket_name, "-"), "."))
    THEN FALSE
    ELSE IF config.region = <<>> THEN FALSE
    ELSE TRUE

\* One way a run of main can end: the exit code, what it did, and the client
\* it constructed (or the untouched state when it constructed none).
main_outcome(code, stp, cls, s3, init, reg, v, tmp, b, enc) ==
    [ret |-> code, steps |-> stp, calls |-> cls, s3_client |-> s3,
     init_status |-> init, region |-> reg, vault |-> v, tmp_archives |-> tmp,
     bucket |-> b, encrypted |-> enc]

\* A run that reports success whatever execute_backup returned.
exit_code_always_zero(backup_ok) == 0

\* The exit code main derives from the result of execute_backup.
exit_code(backup_ok) == IF backup_ok THEN 0 ELSE 1

\* KeyboardInterrupt delivered inside the try block of main, after the steps
\* stp: no callee catches it (they catch Exception), main's handler
\* returns 1.
interrupted(stp, cls, s3, init, reg, v, tmp, b, enc) ==
    main_outcome(1, Append(stp, step("KeyboardInterrupt", FALSE)), cls,
                 s3, init, reg, v, tmp, b, enc)

\* main(): the environment it reads and the state of the world it runs in.
\* It constructs its own client, so the history of the instance starts anew.
\* The user may interrupt it before the configuration is loaded, after the
\* client is constructed, after it is initialized, and during the backup.
main(environ, s3, init, reg, v, tmp, b, enc) ==
    LET loaded == load_configuration(environ)
        s2 == <<step("load_configuration", loaded.raised = None)>>
    IN  {interrupted(<<>>, <<>>, s3, init, reg, v, tmp, b, enc)} \cup
        IF loaded.raised # None
        THEN {main_outcome(1, s2, <<>>, s3, init, reg, v, tmp, b, enc)}
        ELSE LET valid == validate_configuration(loaded.config)
                 s3v == Append(s2, step("validate_configuration", valid))
                 s4 == Append(s3v, step("S3BackupClient", TRUE))
                 r == loaded.config.region
             IN  IF ~valid
                 THEN {main_outcome(1, s3v, <<>>, s3, init, reg, v, tmp, b, enc)}
                 ELSE {interrupted(s4, <<>>, None, "never", r, v, tmp, b, enc)} \cup
                      UNION {
                     LET s5 == Append(s4, step("initialize_client", i.ret))
                         status == init_after("never", i.ret)
                     IN  IF ~i.ret
                         THEN {main_outcome(1, s5, <<>>, i.s3_client, status, r,
                                            v, tmp, b, enc)}
                         ELSE {interrupted(s5, <<>>, i.s3_client, status, r,
                                           v, tmp, b, enc)} \cup
                              UNION {
                             LET s6 == Append(s5, step("verify_credentials", c.ret))
                             IN  IF ~c.ret
                                 THEN {main_outcome(1, s6, c.calls, i.s3_client,
                                                    status, r, v, tmp, b, enc)}
                                 ELSE {interrupted(s6, c.calls, i.s3_client, status,
                                                   r, v, tmp, b, enc)} \cup
                                      {main_outcome(exit_code(x.ret),
                                                    Append(s6, step("execute_backup", x.ret))
                                                        \o x.steps,
                                                    c.calls \o x.calls, i.s3_client,
                                                    status, r, x.vault, x.tmp_archives,
                                                    x.bucket, x.encrypted) :
                                       x \in execute_backup(v, tmp, i.s3_client, r,
                                                            b, enc)} :
                             c \in verify_credentials(i.s3_client)} :
                     i \in initialize_client(r, None)}

----------------------------------------------------------------------------
(* Inputs.                                                                 *)

\* The local path upload_file is called with directly.
LocalPaths == {<<"/", "a", ".", "z", "i", "p">>}

\* The vault as the claims speak of it, by sets rather than by the walk.
eligible(v) == {f \in v : is_backup_target(path_join(vault_path, f))}

vault_kind(v) ==
    IF eligible(v) = {} THEN "no_eligible"
    ELSE IF \E f \in eligible(v) : endswith(f, MD_EXT) THEN "has_markdown"
    ELSE "no_markdown"

KeysGiven == {<<"k">>, <<"j">>}

\* An optional mapping: <<>> for None (or an empty dict), <<m>> for m.
MetadataGiven == {<<>>, <<[backup_type |-> "full"]>>}

\* The paths is_backup_target is called with directly: under /v, the notes
\* n.md and a.obsidian.md, i.png, the three system files, one file per
\* temporary extension, the hidden file .h, and n.md or c.js inside the
\* directories .obsidian, s/.obsidian, x.obsidian and .obsidian.old.
FilterPaths ==
    {<<"/", "v", "/", "n", ".", "m", "d">>,
      <<"/", "v", "/", "i", ".", "p", "n", "g">>,
      <<"/", "v", "/", ".", "D", "S", "_", "S", "t", "o", "r", "e">>,
      <<"/", "v", "/", "T", "h", "u", "m", "b", "s", ".", "d", "b">>,
      <<"/", "v", "/", ".", "g", "i", "t", "i", "g", "n", "o", "r", "e">>,
      <<"/", "v", "/", "a", ".", "t", "m", "p">>,
      <<"/", "v", "/", "a", ".", "t", "e", "m", "p">>,
      <<"/", "v", "/", "a", ".", "b", "a", "k">>,
      <<"/", "v", "/", "a", ".", "s", "w", "p">>,
      <<"/", "v", "/", ".", "h">>,
      <<"/", "v", "/", ".", "o", "b", "s", "i", "d", "i", "a", "n", "/", "c", ".", "j", "s">>,
      <<"/", "v", "/", ".", "o", "b", "s", "i", "d", "i", "a", "n", "/", "n", ".", "m", "d">>,
      <<"/", "v", "/", "s", "/", ".", "o", "b", "s", "i", "d", "i", "a", "n", "/", "n", ".", "m", "d">>,
      <<"/", "v", "/", "x", ".", "o", "b", "s", "i", "d", "i", "a", "n", "/", "n", ".", "m", "d">>,
      <<"/", "v", "/", ".", "o", "b", "s", "i", "d", "i", "a", "n", ".", "o", "l", "d", "/", "n", ".", "m", "d">>,
      <<"/", "v", "/", "a", ".", "o", "b", "s", "i", "d", "i", "a", "n", ".", "m", "d">> }

\* The lists create_backup_archive is called with directly: what a scan of
\* some earlier state of the vault may have listed, in walk order.
FileLists ==
    {LET listed == SelectSeq(WalkOrder, LAMBDA p : p \in w)
     IN  [i \in 1..Len(listed) |-> path_join(vault_path, listed[i])] :
        w \in SUBSET PathUniverse}

\* The timestamps generate_backup_key is called with directly: '', None,
\* 2024-01-01-12-30-45 and what execute_backup passes.
T_2024 == <<"2", "0", "2", "4", "-", "0", "1", "-", "0", "1", "-", "1", "2", "-", "3", "0", "-", "4", "5">>

TimestampsGiven == {<<>>, NoTimestamp, T_2024} \cup Timestamps

\* The environments main is started in: one per way the configuration can
\* be wrong (a variable unset, empty or blank, a path that is missing or a
\* file, a bucket name with an underscore), and two that are right.
env(vp, bn, rg, px) ==
    [OBSIDIAN_VAULT_PATH |-> vp, AWS_S3_BUCKET_NAME |-> bn, AWS_REGION |-> rg,
     BACKUP_PREFIX |-> px]

Environs ==
    {env(Unset, bucket_name, Unset, Unset),
     env(<<>>, bucket_name, Unset, Unset),
     env(vault_path, <<>>, Unset, Unset),
     env(<<" ">>, bucket_name, Unset, Unset),
     env(MISSING_PATH, bucket_name, Unset, Unset),
     env(FILE_PATH, bucket_name, Unset, Unset),
     env(vault_path, Unset, Unset, Unset),
     env(vault_path, <<"b", "_", "1">>, Unset, Unset),
     env(vault_path, bucket_name, <<" ">>, Unset),
     env(vault_path, <<" ", "b", "-", "1">>, Unset, Unset),
     env(vault_path, bucket_name, US_EAST_1, <<"p">>)}

EmptyDisk == [q \in {} |-> <<>>]

NoArgs == [none |-> TRUE]

----------------------------------------------------------------------------
(* The state machine.                                                      *)

Init ==
    /\ vault \in SUBSET PathUniverse
    /\ unlistable \in SUBSET SubDirs
    /\ tmp_archives = EmptyDisk
    /\ region \in Regions
    /\ s3_client = None
    /\ init_status = "never"
    /\ bucket \in {"absent", "mine", "foreign"}
    /\ encrypted \in (IF bucket = "mine" THEN BOOLEAN ELSE {FALSE})
    /\ op = "none"
    /\ args = NoArgs
    /\ result = None
    /\ steps = <<>>
    /\ calls = <<>>
    /\ found_before = FALSE
    /\ ensured = FALSE

\* The probe of an ensure_bucket_exists call found the bucket.
probe_found(cls) == cls # <<>> /\ cls[1].api = "head_bucket" /\ cls[1].answer = "ok"

\* Book-keeping of an operation that has returned; no operation changes
\* the permissions of a directory.
Returned(name, a, ret, stp, cls) ==
    /\ unlistable' = unlistable
    /\ op' = name
    /\ args' = a
    /\ result' = ret
    /\ steps' = stp
    /\ calls' = cls
    /\ found_before' = (op = "ensure_bucket_exists" /\ probe_found(calls))
    /\ ensured' =
          LET in_run == \E i \in 1..Len(stp) : stp[i] = step("ensure_bucket_exists", TRUE)
              new_instance == \E i \in 1..Len(stp) : stp[i].step = "S3BackupClient"
          IN  IF new_instance THEN in_run
              ELSE \/ ensured
                   \/ in_run
                   \/ (name = "ensure_bucket_exists" /\ ret = TRUE)

InitializeClient ==
    \E o \in initialize_client(region, s3_client) :
        /\ s3_client' = o.s3_client
        /\ init_status' = init_after(init_status, o.ret)
        /\ Returned("initialize_client", NoArgs, o.ret, <<>>, <<>>)
        /\ UNCHANGED <<vault, tmp_archives, region, bucket, encrypted>>

VerifyCredentials ==
    \E o \in verify_credentials(s3_client) :
        /\ Returned("verify_credentials", NoArgs, o.ret, <<>>, o.calls)
        /\ UNCHANGED <<vault, tmp_archives, region, s3_client,
                       init_status, bucket, encrypted>>

EnsureBucketExists ==
    \E o \in ensure_bucket_exists(s3_client, region, bucket, encrypted) :
        /\ bucket' = o.bucket
        /\ encrypted' = o.encrypted
        /\ Returned("ensure_bucket_exists", NoArgs, o.ret, <<>>, o.calls)
        /\ UNCHANGED <<vault, tmp_archives, region, s3_client, init_status>>

\* upload_file called directly; whether local_path exists is the caller's
\* and the file system's business.
UploadFile ==
    \E local_path \in LocalPaths, exists \in BOOLEAN,
       s3_key \in KeysGiven, metadata \in MetadataGiven :
        \E o \in upload_file(s3_client, bucket, local_path, exists, s3_key, metadata) :
            /\ Returned("upload_file",
                        [local_path |-> local_path, exists |-> exists,
                         s3_key |-> s3_key, metadata |-> metadata],
                        o.ret, <<>>, o.calls)
            /\ UNCHANGED <<vault, tmp_archives, region, s3_client,
                           init_status, bucket, encrypted>>

GenerateBackupKey ==
    \E timestamp \in TimestampsGiven :
        /\ Returned("generate_backup_key", [timestamp |-> timestamp],
                    generate_backup_key(timestamp), <<>>, <<>>)
        /\ UNCHANGED <<vault, tmp_archives, region, s3_client,
                       init_status, bucket, encrypted>>

GetAwsCredentials ==
    \E d \in DotenvFiles, e \in ProcessEnvirons, p \in SessionCredentials :
        /\ Returned("get_aws_credentials",
                    [dotenv |-> d, environ |-> e, session |-> p],
                    get_aws_credentials(d, e, p), <<>>, <<>>)
        /\ UNCHANGED <<vault, tmp_archives, region, s3_client,
                       init_status, bucket, encrypted>>

IsBackupTarget ==
    \E file_path \in FilterPaths :
        /\ Returned("is_backup_target", [file_path |-> file_path],
                    is_backup_target(file_path), <<>>, <<>>)
        /\ UNCHANGED <<vault, tmp_archives, region, s3_client,
                       init_status, bucket, encrypted>>

\* validate_vault called directly: the result with the reason it logged.
ValidateVault ==
    /\ Returned("validate_vault", [vault |-> vault, unlistable |-> unlistable],
                validate_vault(vault), <<>>, <<>>)
    /\ UNCHANGED <<vault, tmp_archives, region, s3_client,
                   init_status, bucket, encrypted>>

ScanVaultFiles ==
    /\ Returned("scan_vault_files", [vault |-> vault, unlistable |-> unlistable],
                scan_vault_files(vault), <<>>, <<>>)
    /\ UNCHANGED <<vault, tmp_archives, region, s3_client,
                   init_status, bucket, encrypted>>

\* create_backup_archive called directly with a list that need not match
\* the vault as it is now; `present` are the listed files that existed when
\* the archive was built, `before` the temporary files then on disk.
CreateBackupArchive ==
    \E files \in FileLists :
        \E o \in create_backup_archive(files, vault, tmp_archives) :
            /\ vault' = o.vault
            /\ tmp_archives' = o.tmp_archives
            /\ Returned("create_backup_archive",
                        [files   |-> files,
                         present |-> {files[i] : i \in {j \in 1..Len(files) :
                                                         vault_exists(o.vault, files[j])}},
                         before  |-> DOMAIN tmp_archives],
                        o.archive_path, <<>>, <<>>)
            /\ UNCHANGED <<region, s3_client, init_status, bucket, encrypted>>

ExecuteBackup ==
    \E o \in execute_backup(vault, tmp_archives, s3_client, region, bucket, encrypted) :
        /\ vault' = o.vault
        /\ tmp_archives' = o.tmp_archives
        /\ bucket' = o.bucket
        /\ encrypted' = o.encrypted
        /\ Returned("execute_backup", [vault |-> vault_kind(vault)],
                    o.ret, o.steps, o.calls)
        /\ UNCHANGED <<region, s3_client, init_status>>

Main ==
    \E environ \in Environs :
        \E o \in main(environ, s3_client, init_status, region,
                      vault, tmp_archives, bucket, encrypted) :
            /\ vault' = o.vault
            /\ tmp_archives' = o.tmp_archives
            /\ bucket' = o.bucket
            /\ encrypted' = o.encrypted
            /\ s3_client' = o.s3_client
            /\ init_status' = o.init_status
            /\ region' = o.region
            /\ Returned("main", [vault |-> vault_kind(vault), environ |-> environ],
                        o.ret, o.steps, o.calls)

\* Other processes.
BucketChanges ==
    \E r \in RemoteNext(bucket, encrypted) \ {<<bucket, encrypted>>} :
        /\ bucket' = r[1]
        /\ encrypted' = r[2]
        /\ UNCHANGED <<vault, unlistable, tmp_archives, region, s3_client,
                       init_status, op, args, result, steps, calls, found_before,
                       ensured>>

VaultChanges ==
    \E v \in VaultNext(vault) \ {vault} :
        /\ vault' = v
        /\ UNCHANGED <<unlistable, tmp_archives, region, s3_client, init_status,
                       bucket, encrypted, op, args, result, steps, calls, found_before,
                       ensured>>

Next ==
    \/ InitializeClient
    \/ VerifyCredentials
    \/ EnsureBucketExists
    \/ UploadFile
    \/ ExecuteBackup
    \/ BucketChanges
    \/ VaultChanges

\* The operations of one client instance and of the orchestrator that holds
\* it, called in any order.
Spec == Init /\ [][Next]_vars

\* The program as a process: main, run again and again with a client of
\* its own each time, and the backup run on the client main left behind.
NextMain ==
    \/ Main
    \/ ExecuteBackup
    \/ BucketChanges
    \/ VaultChanges

SpecMain == Init /\ [][NextMain]_vars

\* The vault operations called one by one, on a vault other processes write
\* to.
NextVault ==
    \/ ValidateVault
    \/ ScanVaultFiles
    \/ CreateBackupArchive
    \/ VaultChanges

SpecVault == Init /\ [][NextVault]_vars

\* The functions of their arguments alone, called on a client in any state
\* of initialization.
NextPure ==
    \/ InitializeClient
    \/ GenerateBackupKey
    \/ IsBackupTarget
    \/ GetAwsCredentials

SpecPure == Init /\ [][NextPure]_vars

----------------------------------------------------------------------------
(* Properties.                                                             *)

has_step(name, ok) == \E i \in 1..Len(steps) : steps[i] = step(name, ok)

count_steps(name) == Cardinality({i \in 1..Len(steps) : steps[i].step = name})

count_calls(api) == Cardinality({i \in 1..Len(calls) : calls[i].api = api})

CreationApis == {"create_bucket", "put_bucket_encryption"}

\* C2: in a run of execute_backup a failed step ends the run with False and
\* nothing of a later step is invoked (only the clean-up of the archive may
\* follow); after a failed validation nothing else was invoked and no remote
\* call was issued; ensure_bucket_exists and upload_file are invoked at most
\* once each.
C2_ShortCircuit ==
    op = "execute_backup" =>
        /\ \A i \in 1..Len(steps) :
              ~steps[i].ok =>
                  /\ result = FALSE
                  /\ \A j \in (i + 1)..Len(steps) : steps[j].step = "os.unlink"
        /\ has_step("validate_vault", FALSE) => Len(steps) = 1 /\ calls = <<>>
        /\ has_step("ensure_bucket_exists", FALSE) => count_steps("upload_file") = 0
        /\ count_steps("ensure_bucket_exists") <= 1
        /\ count_steps("upload_file") <= 1
        /\ count_calls("head_bucket") <= 1
        /\ count_calls("upload_file") <= 1

\* A run on a usable client that ended at the failed validation.
C2_Witness ==
    /\ op = "execute_backup"
    /\ s3_client # None
    /\ steps = <<step("validate_vault", FALSE)>>
    /\ calls = <<>>
    /\ result = FALSE

\* C3: a run of execute_backup on a vault with an eligible markdown file, in
\* which the vault was not emptied under it and no call of
\* ensure_bucket_exists or upload_file returned False, returns True after
\* exactly one call of each.
C3_SuccessfulRun ==
    ( /\ op = "execute_backup"
      /\ args.vault = "has_markdown"
      /\ \A i \in 1..Len(steps) :
            steps[i].step \in {"validate_vault", "scan_vault_files",
                               "ensure_bucket_exists", "upload_file"}
                => steps[i].ok )
    => /\ result = TRUE
       /\ count_steps("ensure_bucket_exists") = 1
       /\ count_steps("upload_file") = 1

\* C4 as claimed: a run (of execute_backup, or of main) whose validation
\* meets a vault without eligible files fails at the validation, and no
\* remote call at all was issued during the run.
C4_NoRemoteCall ==
    ( /\ op \in {"execute_backup", "main"}
      /\ args.vault = "no_eligible"
      /\ count_steps("validate_vault") > 0 )
    => /\ has_step("validate_vault", FALSE)
       /\ result = (IF op = "main" THEN 1 ELSE FALSE)
       /\ calls = <<>>

\* C4 as amended: such a run fails at the validation and execute_backup
\* issues no remote call; the only remote call of a run of main is the
\* list_buckets call of verify_credentials, issued before the validation.
C4_NoRemoteCallByBackup ==
    ( /\ op \in {"execute_backup", "main"}
      /\ args.vault = "no_eligible"
      /\ count_steps("validate_vault") > 0 )
    => /\ has_step("validate_vault", FALSE)
       /\ steps[Len(steps)] = step("validate_vault", FALSE)
       /\ result = (IF op = "main" THEN 1 ELSE FALSE)
       /\ calls = (IF op = "main" THEN <<call("list_buckets", <<>>, "ok")>> ELSE <<>>)

\* A run of main on a vault without eligible files: exit code 1, one
\* list_buckets call.
C4_Witness ==
    /\ op = "main"
    /\ args.vault = "no_eligible"
    /\ has_step("validate_vault", FALSE)
    /\ result = 1
    /\ calls = <<call("list_buckets", <<>>, "ok")>>

\* C5: when the probe of ensure_bucket_exists finds the bucket, the call
\* returns True and the probe is the only remote call it issued; so the
\* second of two calls in a row that both find the bucket returns True
\* without a creation call.
C5_ExistingBucket ==
    (op = "ensure_bucket_exists" /\ probe_found(calls)) =>
        /\ result = TRUE
        /\ Len(calls) = 1
        /\ \A i \in 1..Len(calls) : calls[i].api \notin CreationApis

\* The second of two calls in a row on an existing bucket.
C5_Witness ==
    /\ found_before
    /\ op = "ensure_bucket_exists"
    /\ probe_found(calls)
    /\ result = TRUE
    /\ calls = <<call("head_bucket", [Bucket |-> bucket_name], "ok")>>

\* C6: ensure_bucket_exists issues create_bucket only after its own probe
\* failed with NoSuchBucket or 404; after any other probe error it returns
\* False and the probe is its only remote call.
C6_CreateOnlyWhenNotFound ==
    op = "ensure_bucket_exists" =>
        /\ count_calls("create_bucket") > 0 =>
              /\ calls[1].api = "head_bucket"
              /\ calls[1].answer \in {"NoSuchBucket", "404"}
        /\ (calls # <<>> /\ calls[1].answer \notin {"ok", "NoSuchBucket", "404"}) =>
              /\ result = FALSE
              /\ Len(calls) = 1

\* A probe answered with AccessDenied.
C6_Witness ==
    /\ op = "ensure_bucket_exists"
    /\ Len(calls) = 1
    /\ calls[1].answer = "AccessDenied"
    /\ result = FALSE

\* C7: when the create call that follows a not-found probe fails with
\* BucketAlreadyOwnedByYou the method returns True, when it fails with
\* BucketAlreadyExists it returns False; either way the create call is its
\* last remote call (no retry).
C7_CreationRace ==
    (op = "ensure_bucket_exists" /\ Len(calls) >= 2 /\ calls[2].api = "create_bucket") =>
        /\ calls[2].answer = "BucketAlreadyOwnedByYou" => result = TRUE /\ Len(calls) = 2
        /\ calls[2].answer = "BucketAlreadyExists" => result = FALSE /\ Len(calls) = 2

\* The bucket was absent at the probe and created by the same owner before
\* the create call.
C7_Witness ==
    /\ op = "ensure_bucket_exists"
    /\ Len(calls) = 2
    /\ calls[1].answer \in {"NoSuchBucket", "404"}
    /\ calls[2].answer = "BucketAlreadyOwnedByYou"
    /\ bucket = "mine"
    /\ result = TRUE

\* C8: a successful create_bucket call is followed at once by the
\* put_bucket_encryption call for the same bucket with the AES256 rule and
\* the bucket key enabled, and the method returns True only if that call
\* succeeded too.
C8_EncryptionFollowsCreate ==
    op = "ensure_bucket_exists" =>
        \A i \in 1..Len(calls) :
            (calls[i].api = "create_bucket" /\ calls[i].answer = "ok") =>
                /\ i < Len(calls)
                /\ calls[i + 1].api = "put_bucket_encryption"
                /\ calls[i + 1].kwargs =
                      [Bucket |-> bucket_name,
                       ServerSideEncryptionConfiguration |-> encryption_config]
                /\ result = TRUE => calls[i + 1].answer = "ok"

\* The bucket was created and the policy call failed.
C8_Witness ==
    /\ op = "ensure_bucket_exists"
    /\ Len(calls) = 3
    /\ calls[2] = call("create_bucket", create_bucket_kwargs(region), "ok")
    /\ calls[3].api = "put_bucket_encryption"
    /\ calls[3].answer = "AccessDenied"
    /\ result = FALSE

\* C9: while the most recent initialize_client call on the instance did not
\* succeed (there was none, or it failed, also after an earlier success) the
\* handle is unset, and verify_credentials, ensure_bucket_exists and
\* upload_file return False without a remote call.
C9_Uninitialized ==
    init_status # "ok" =>
        /\ s3_client = None
        /\ op \in {"verify_credentials", "ensure_bucket_exists", "upload_file"} =>
              result = FALSE /\ calls = <<>>

\* An operation on an instance whose initialization failed after it had
\* succeeded once.
C9_Witness ==
    /\ init_status = "failed_after_ok"
    /\ op = "ensure_bucket_exists"
    /\ result = FALSE
    /\ calls = <<>>

\* C10: upload_file called with a local path that does not exist returns
\* False without an upload call.
C10_MissingLocalFile ==
    (op = "upload_file" /\ ~args.exists) => result = FALSE /\ calls = <<>>

\* Such a call on an initialized client.
C10_Witness ==
    /\ op = "upload_file"
    /\ s3_client # None
    /\ ~args.exists
    /\ result = FALSE
    /\ calls = <<>>

\* C11: every upload call issued by upload_file names the local file it was
\* given, the bucket of the client and the key it was given, with storage
\* class DEEP_ARCHIVE and server-side encryption AES256; a mapping passed by
\* the caller is carried as Metadata, and without one there is no Metadata.
\* The bucket, the storage class and the encryption are the same for the
\* upload call of any other operation.
C11_UploadArguments ==
    \A i \in 1..Len(calls) :
        calls[i].api = "upload_file" =>
            /\ calls[i].kwargs.Bucket = bucket_name
            /\ calls[i].kwargs.ExtraArgs.StorageClass = "DEEP_ARCHIVE"
            /\ calls[i].kwargs.ExtraArgs.ServerSideEncryption = "AES256"
            /\ op = "upload_file" =>
                  /\ calls[i].kwargs.Filename = args.local_path
                  /\ calls[i].kwargs.Key = args.s3_key
                  /\ IF args.metadata # <<>>
                     THEN /\ "Metadata" \in DOMAIN calls[i].kwargs.ExtraArgs
                          /\ calls[i].kwargs.ExtraArgs.Metadata = args.metadata[1]
                     ELSE "Metadata" \notin DOMAIN calls[i].kwargs.ExtraArgs

\* An upload with a mapping that the service accepted.
C11_Witness ==
    /\ op = "upload_file"
    /\ args.metadata # <<>>
    /\ Len(calls) = 1
    /\ calls[1].api = "upload_file"
    /\ calls[1].answer = "ok"
    /\ result = TRUE

\* C12: a call of create_backup_archive with a list of which at least one
\* path existed when the archive was built returns an archive that holds
\* exactly one entry per listed path that existed, named by its path
\* relative to the vault root; the missing paths do not fail the build.
C12_ArchiveEntries ==
    (op = "create_backup_archive" /\ args.present # {}) =>
        /\ result # None
        /\ result \in DOMAIN tmp_archives
        /\ Len(tmp_archives[result]) = Cardinality(args.present)
        /\ {tmp_archives[result][i] : i \in 1..Len(tmp_archives[result])}
              = {relpath(f) : f \in args.present}

\* C13: create_backup_archive returns no archive when the list is empty and
\* when none of the listed paths existed when the archive was built, and
\* the call leaves no temporary file on disk that was not there before it.
C13_NothingArchived ==
    (op = "create_backup_archive" /\ (args.files = <<>> \/ args.present = {})) =>
        /\ result = None
        /\ DOMAIN tmp_archives \subseteq args.before

\* A call with a list of two paths of which none exists any more.
C13_Witness ==
    /\ op = "create_backup_archive"
    /\ Len(args.files) = 2
    /\ args.present = {}
    /\ result = None
    /\ DOMAIN tmp_archives = {}

\* The four exclusion rules as the specification words them.
has_dir_segment(p, name) == contains(<<"/">> \o p, <<"/">> \o name \o <<"/">>)

in_config_directory(p) == has_dir_segment(p, DOT_OBSIDIAN)

is_system_file(p) ==
    basename(p) \in { <<".", "D", "S", "_", "S", "t", "o", "r", "e">>,
                      <<"T", "h", "u", "m", "b", "s", ".", "d", "b">>,
                      <<".", "g", "i", "t", "i", "g", "n", "o", "r", "e">> }

is_temporary_file(p) ==
    \/ endswith(basename(p), <<".", "t", "m", "p">>)
    \/ endswith(basename(p), <<".", "t", "e", "m", "p">>)
    \/ endswith(basename(p), <<".", "b", "a", "k">>)
    \/ endswith(basename(p), <<".", "s", "w", "p">>)

is_hidden_file(p) == basename(p) # <<>> /\ basename(p)[1] = "."

\* C15: is_backup_target returns False (and does not raise) for a path with
\* a directory segment .obsidian, a path whose base name is .DS_Store,
\* Thumbs.db or .gitignore, one whose base name ends with .tmp, .temp, .bak
\* or .swp, and one whose base name starts with a dot.
C15_Excluded ==
    op = "is_backup_target" =>
        /\ result \in BOOLEAN
        /\ ( \/ in_config_directory(args.file_path)
             \/ is_system_file(args.file_path)
             \/ is_temporary_file(args.file_path)
             \/ is_hidden_file(args.file_path) ) => result = FALSE

\* A markdown file inside a .obsidian directory one level down.
C15_Witness ==
    /\ op = "is_backup_target"
    /\ in_config_directory(args.file_path)
    /\ ~startswith(args.file_path, path_join(vault_path, DOT_OBSIDIAN))
    /\ endswith(args.file_path, MD_EXT)
    /\ result = FALSE

\* C16: is_backup_target returns True for every path that none of the four
\* rules excludes, the first rule being that a directory segment is exactly
\* .obsidian.
C16_IncludedOtherwise ==
    ( /\ op = "is_backup_target"
      /\ ~in_config_directory(args.file_path)
      /\ ~is_system_file(args.file_path)
      /\ ~is_temporary_file(args.file_path)
      /\ ~is_hidden_file(args.file_path) ) => result = TRUE

\* The files a traversal of the vault finds: those in the directories the
\* process can list.
found_files(v, denied) == {f \in v : dirname(f) \notin denied}

\* C17: scan_vault_files returns, once each, exactly the files the traversal
\* finds (at any depth) for which is_backup_target is True; the vault
\* {n.md, .obsidian/c.js, s/i.png} yields exactly n.md and s/i.png.
C17_ScanExact ==
    op = "scan_vault_files" =>
        /\ {result[i] : i \in 1..Len(result)}
              = {path_join(vault_path, f) :
                   f \in {g \in found_files(args.vault, args.unlistable) :
                             is_backup_target(path_join(vault_path, g))}}
        /\ \A i, j \in 1..Len(result) : result[i] = result[j] => i = j
        /\ (args.vault = {F_note, F_cfg, F_img} /\ args.unlistable = {}) =>
              result = <<path_join(vault_path, F_note), path_join(vault_path, F_img)>>

\* The scan of the vault {n.md, .obsidian/c.js, s/i.png}.
C17_Witness ==
    /\ op = "scan_vault_files"
    /\ args.vault = {F_note, F_cfg, F_img}
    /\ args.unlistable = {}
    /\ Len(result) = 2

\* C18: a scan during which a directory of the vault could not be listed
\* returns the empty list.
C18_FailClosed ==
    ( /\ op = "scan_vault_files"
      /\ \E f \in args.vault : dirname(f) \in args.unlistable ) => result = <<>>

\* C19: validate_vault returns True exactly when the traversal finds an
\* eligible file whose name ends in .md; when it finds no eligible file the
\* logged reason is the one for an empty vault, when it finds eligible files
\* of which none is a markdown file the reason is the one for missing
\* markdown, and the two reasons differ.
C19_Validation ==
    op = "validate_vault" =>
        LET targets == {f \in found_files(args.vault, args.unlistable) :
                          is_backup_target(path_join(vault_path, f))}
            notes == {f \in targets : endswith(basename(f), MD_EXT)}
        IN  /\ result.ret = (notes # {})
            /\ targets = {} => result.reason = "empty"
            /\ (targets # {} /\ notes = {}) => result.reason = "no_markdown"
            /\ notes # {} => result.reason = "ok"

\* A vault with an image and no note.
C19_Witness ==
    /\ op = "validate_vault"
    /\ F_img \in args.vault
    /\ F_note \notin args.vault
    /\ args.unlistable = {}
    /\ result = [ret |-> FALSE, reason |-> "no_markdown"]

\* obsidian-backup-2024-01-01-12-30-45.zip
K_2024 ==
    <<"o", "b", "s", "i", "d", "i", "a", "n", "-", "b", "a", "c", "k", "u", "p", "-", "2", "0", "2", "4">> \o
    <<"-", "0", "1", "-", "0", "1", "-", "1", "2", "-", "3", "0", "-", "4", "5", ".", "z", "i", "p">>

\* C20: generate_backup_key raises ValueError for the timestamp '' and for
\* None, and otherwise returns obsidian-backup-<timestamp>.zip, a value that
\* depends on the timestamp alone (2024-01-01-12-30-45 gives
\* obsidian-backup-2024-01-01-12-30-45.zip); the call leaves the handle, the
\* region and the initialization status of the client as they were.
C20_BackupKey ==
    /\ [](op = "generate_backup_key" =>
            /\ args.timestamp \in {<<>>, NoTimestamp} =>
                  result.raised = "ValueError"
            /\ args.timestamp \notin {<<>>, NoTimestamp} =>
                  /\ result.raised = None
                  /\ result.key =
                        <<"o", "b", "s", "i", "d", "i", "a", "n", "-",
                          "b", "a", "c", "k", "u", "p", "-">>
                        \o args.timestamp \o <<".", "z", "i", "p">>
            /\ args.timestamp = T_2024 => result.key = K_2024)
    /\ [][op' = "generate_backup_key" =>
             UNCHANGED <<s3_client, init_status, region>>]_vars

\* The key for 2024-01-01-12-30-45, generated on an initialized client.
C20_Witness ==
    /\ op = "generate_backup_key"
    /\ s3_client # None
    /\ args.timestamp = T_2024
    /\ result = [raised |-> None, key |-> K_2024]

\* C21: main returns 0 or 1, and 0 exactly when the configuration loaded
\* and validated and initialize_client, verify_credentials and
\* execute_backup each returned True; a run that the user interrupted
\* returns 1.
C21_ExitCode ==
    op = "main" =>
        /\ result \in {0, 1}
        /\ result = 0 <=>
              /\ has_step("load_configuration", TRUE)
              /\ has_step("validate_configuration", TRUE)
              /\ has_step("initialize_client", TRUE)
              /\ has_step("verify_credentials", TRUE)
              /\ has_step("execute_backup", TRUE)
              /\ count_steps("KeyboardInterrupt") = 0

\* A run in which everything up to the backup succeeded and the backup
\* failed.
C21_Witness ==
    /\ op = "main"
    /\ has_step("verify_credentials", TRUE)
    /\ has_step("execute_backup", FALSE)
    /\ result = 1

\* The answers of a remote call that are exceptions.
ErrorAnswers == ClientErrorCodes \cup {"BotoCoreError", "Exception"}

GuardedOperations ==
    {"initialize_client", "verify_credentials", "ensure_bucket_exists",
     "upload_file", "execute_backup"}

\* C22 as claimed: each of the five operations returns a boolean, and
\* returns False when any remote call it issued raised an error.
C22_ErrorsYieldFalse ==
    op \in GuardedOperations =>
        /\ result \in BOOLEAN
        /\ (\E i \in 1..Len(calls) : calls[i].answer \in ErrorAnswers) =>
              result = FALSE

\* C22 as amended: each of the five operations returns a boolean (nothing
\* escapes as an exception); an error of a remote call ends the operation
\* with False, except that ensure_bucket_exists goes on to create the bucket
\* after a NoSuchBucket or 404 answer of its probe and returns True after a
\* BucketAlreadyOwnedByYou answer of its create call; a failed step of
\* execute_backup makes it return False.
C22_NoEscape ==
    op \in GuardedOperations =>
        /\ result \in BOOLEAN
        /\ \A i \in 1..Len(calls) :
              calls[i].answer \in ErrorAnswers =>
                  \/ /\ i = Len(calls)
                     /\ result = FALSE
                  \/ /\ i = Len(calls)
                     /\ calls[i].api = "create_bucket"
                     /\ calls[i].answer = "BucketAlreadyOwnedByYou"
                     /\ result = TRUE
                  \/ /\ i = 1
                     /\ i < Len(calls)
                     /\ calls[i].api = "head_bucket"
                     /\ calls[i].answer \in {"NoSuchBucket", "404"}
        /\ (\E i \in 1..Len(steps) : ~steps[i].ok) => result = FALSE

\* An upload that failed with something other than a ClientError.
C22_Witness ==
    /\ op = "upload_file"
    /\ Len(calls) = 1
    /\ calls[1].answer = "Exception"
    /\ result = FALSE

provides_both(src) == src.access_key # "" /\ src.secret_key # ""

pair_of(src) ==
    <<[aws_access_key_id |-> src.access_key,
       aws_secret_access_key |-> src.secret_key]>>

\* C23: get_aws_credentials returns the key pair of the first of the .env
\* file, the process environment and the profile that provides both keys,
\* and None when none of them does.
C23_PriorityOrder ==
    op = "get_aws_credentials" =>
        result = (IF provides_both(args.dotenv) THEN pair_of(args.dotenv)
                  ELSE IF provides_both(args.environ) THEN pair_of(args.environ)
                  ELSE IF provides_both(args.session) THEN pair_of(args.session)
                  ELSE <<>>)

\* C24 as claimed: upload_file issues an upload call only on an instance on
\* which initialize_client has succeeded and ensure_bucket_exists has
\* returned True before.
C24_UploadOnlyWhenReady ==
    (op = "upload_file" /\ calls # <<>>) => (init_status = "ok" /\ ensured)

\* C24 as amended: upload_file issues an upload call only on an instance
\* whose most recent initialize_client succeeded (its handle is set).
C24_UploadOnlyWhenInitialized ==
    (op = "upload_file" /\ calls # <<>>) => (init_status = "ok" /\ s3_client # None)

\* An upload call on an initialized instance on which ensure_bucket_exists
\* has never returned True.
C24_Witness ==
    /\ op = "upload_file"
    /\ calls # <<>>
    /\ init_status = "ok"
    /\ ~ensured

\* The calls of an ensure_bucket_exists that created the bucket and failed
\* to set its encryption policy.
created_without_policy(cls) ==
    /\ Len(cls) = 3
    /\ cls[2].api = "create_bucket" /\ cls[2].answer = "ok"
    /\ cls[3].api = "put_bucket_encryption" /\ cls[3].answer # "ok"

\* C25: when a call of ensure_bucket_exists has created the bucket and
\* failed to set the policy, the next call of ensure_bucket_exists on the
\* instance returns True only if the bucket carries the policy by then.
C25_PolicyBeforeTrue ==
    [][ ( /\ op = "ensure_bucket_exists"
          /\ created_without_policy(calls)
          /\ op' = "ensure_bucket_exists"
          /\ result' = TRUE ) => encrypted' ]_vars

\* The configuration errors of a required setting: the vault path or the
\* bucket name unset, empty or blank, the vault path not an existing
\* directory, a bucket name with a character other than letters, digits,
\* hyphens and dots.
is_blank(value) == value = Unset \/ \A i \in 1..Len(value) : value[i] = " "

is_malformed_name(value) ==
    \E i \in 1..Len(strip(value)) :
        strip(value)[i] \notin AlnumChars \cup {"-", "."}

config_error(environ) ==
    \/ is_blank(environ.OBSIDIAN_VAULT_PATH)
    \/ is_blank(environ.AWS_S3_BUCKET_NAME)
    \/ strip(environ.OBSIDIAN_VAULT_PATH) \in {MISSING_PATH, FILE_PATH}
    \/ is_malformed_name(environ.AWS_S3_BUCKET_NAME)

\* C28: a run of main in an environment with such an error returns 1
\* without having constructed the client and without a remote call.
C28_ConfigErrorsFirst ==
    (op = "main" /\ config_error(args.environ)) =>
        /\ result = 1
        /\ calls = <<>>
        /\ count_steps("S3BackupClient") = 0
        /\ count_steps("initialize_client") = 0
        /\ count_steps("execute_backup") = 0

\* A run with a vault path that does not exist, stopped by the validation
\* of the configuration.
C28_Witness ==
    /\ op = "main"
    /\ args.environ.OBSIDIAN_VAULT_PATH = MISSING_PATH
    /\ steps = <<step("load_configuration", TRUE),
                 step("validate_configuration", FALSE)>>
    /\ result = 1
    /\ calls = <<>>

\* C29: the client a run of main constructs in an environment that sets
\* BACKUP_PREFIX generates its keys with that prefix:
\* <BACKUP_PREFIX>-<timestamp>.zip.
C29_ConfiguredPrefix ==
    ( /\ op = "main"
      /\ count_steps("S3BackupClient") > 0
      /\ args.environ.BACKUP_PREFIX # Unset ) =>
        generate_backup_key(T_2024).key =
            strip(args.environ.BACKUP_PREFIX) \o <<"-">> \o T_2024
                \o <<".", "z", "i", "p">>

====
